---- MODULE Spec2Model ----
(***************************************************************************)
(* Session state machine of the local assistant REPL (src/repl.py) with   *)
(* the profile store (src/profiles.py), the persona table                 *)
(* (src/personas.py) and the face bank as seen by the REPL                 *)
(* (src/face_auth.py).                                                     *)
(*                                                                         *)
(* One action per REPL command: the action is the whole loop iteration,   *)
(* from the dispatch on the input line to the `continue`.                  *)
(* Speech output (tts.speak), the TTS preference values and the model tag *)
(* (MODEL_ref) are not part of the state: they are written and read but   *)
(* decide no branch that changes identity, store, history or voice mode.  *)
(*                                                                         *)
(* `last` records the iteration that has just run (command, argument,     *)
(* outcome, identity it started with); it is cleared when the loop goes   *)
(* back to its input stage.                                                *)
(*                                                                         *)
(* The specifications:                                                     *)
(*   Spec           the REPL; a recognition attempt and an enrollment     *)
(*                  capture appear by their results only                   *)
(*   SpecStartup    the launch of run_repl alone, under every             *)
(*                  configuration, store and face bank                     *)
(*   SpecRecognize  calls of recognize_quick, frame by frame              *)
(*   SpecKnn        _knn on small training sets                            *)
(*   SpecQuality    the size and sharpness checks on one detected box     *)
(*   SpecEnroll     calls of capture_profile, frame by frame              *)
(*   SpecRelease    both routines, with the exceptions a frame can raise  *)
(***************************************************************************)
EXTENDS Integers, Sequences, FiniteSets, TLC

\* ------------------------------------------------------------------ names

\* keys of PERSONAS
PERSONAS == {"Aldridge", "Professor", "Guest"}

\* identities the session prompt can show
Identities == PERSONAS \cup {"LOCKED", "guest"}

\* keys of the profile store that the REPL can look up (by identity or target)
Keys == Identities

\* names a user can type after /login: the personas, the reserved words and
\* a name that is no persona
Names == Identities \cup {"Bob"}

\* names a user can type after /setup_profile
EnrollNames == {"Aldridge", "Guest", "LOCKED", "Bob"}

\* names a user can type after /grant_calendar and /revoke_calendar
GrantTargets == {"Professor", "Guest", "Bob"}

\* saved place keys a user can type
PlaceKeys == {"home"}

\* bound: number of label files the face_dataset directory may hold
MaxBank == 1

\* bound: number of chat turns kept in the chat history
MaxTurns == 1

\* str.lower() on the modelled names
Lower(s) ==
    CASE s = "Aldridge"  -> "aldridge"
      [] s = "Professor" -> "professor"
      [] s = "Guest"     -> "guest"
      [] s = "guest"     -> "guest"
      [] s = "LOCKED"    -> "locked"
      [] s = "Bob"       -> "bob"
      [] OTHER           -> s

\* ------------------------------------------------------------ profile store

\* permissions.calendar of one profile entry:
\*   "absent"  no permissions entry, "noflag" a permissions entry without the
\*   calendar key, "true" / "false" the stored flag
CalValues == {"absent", "noflag", "true", "false"}

LastValues == Names \cup {"none"}

EmptyStore ==
    [cal |-> [k \in Keys |-> "absent"],
     places |-> [k \in Keys |-> {}],
     last |-> "none"]

\* a profiles.json in which every key, reserved ones included, carries a
\* calendar flag set to true and a saved place
HostileStore ==
    [cal |-> [k \in Keys |-> "true"],
     places |-> [k \in Keys |-> PlaceKeys],
     last |-> "Guest"]

\* a profiles.json with permission entries lacking the calendar key and a
\* _last_identity that is no persona any more
StaleStore ==
    [cal |-> [k \in Keys |-> IF k \in PERSONAS THEN "noflag" ELSE "absent"],
     places |-> [k \in Keys |-> {}],
     last |-> "Bob"]

PersistedStores == {EmptyStore, HostileStore, StaleStore}

\* faulty variant: the permissions entry is written whether it exists or not
ensure_identity_struct_reset(p, id) ==
    [p EXCEPT !.cal[id] = IF id = "Aldridge" THEN "true" ELSE "false"]

ensure_identity_struct(p, id) ==
    [p EXCEPT !.cal[id] =
        IF @ = "absent"
        THEN (IF id = "Aldridge" THEN "true" ELSE "false")
        ELSE @]

\* faulty variant: a missing flag counts as granted
has_calendar_permission_default_true(id, p) == p.cal[id] # "false"

has_calendar_permission(id, p) == p.cal[id] = "true"

\* ------------------------------------------------------------- chat history

seed_chat_history(id) ==
    [seed |-> IF id \in PERSONAS THEN id ELSE "Aldridge", turns |-> <<>>]

\* ---------------------------------------------------------------- variables

VARIABLES
    pc,             \* "startup" | "input" | "continue" | "exited"
    identity,       \* run_repl: identity
    profiles,       \* run_repl: profiles (in memory)
    disk,           \* profiles.json
    history,        \* run_repl: history
    voice_mode,     \* run_repl: voice_mode
    face_dataset,   \* labels with a <label>.npy file in face_dataset/
    cfg,            \* STRICT_AUTH, HAS_CV2, stt.available, VOICE_MODE_DEFAULT
    last,           \* the last loop iteration: command, argument, outcome
    rq_pc,          \* recognize_quick: "idle" | "loop" | "done" | "raised"
    stream,         \* recognize_quick: what cap.read() delivers, frame by frame
    frames,         \* recognize_quick: frames
    votes,          \* recognize_quick: votes
    result,         \* recognize_quick: the returned value ("none" for None)
    prev_call,      \* how the call of recognize_quick before this one ended
    cap,            \* the camera handle of the call under way:
                    \* "none" | "open" | "released"
    records,        \* the samples stored in face_dataset/<label>.npy
    en_pc,          \* capture_profile: "idle" | "loop" | "done" | "raised"
    en_name,        \* capture_profile: name
    frame_counter,  \* capture_profile: frame_counter
    samples,        \* capture_profile: samples
    en_ret,         \* capture_profile: the returned value
    en_frame,       \* capture_profile: what the last iteration read: the
                    \* frame, its largest box and the key of cv2.waitKey
    knn,            \* one call of _knn: its arguments and what it returned
    box             \* one detected box and what the quality checks did with it

\* the variables of one call of recognize_quick
recog_vars == <<rq_pc, stream, frames, votes, result, prev_call>>

\* the variables of one call of capture_profile
enroll_vars == <<en_pc, en_name, frame_counter, samples, en_ret, en_frame>>

\* the variables of face_auth.py
camera_vars == <<recog_vars, cap, records, enroll_vars, knn, box>>

vars == <<pc, identity, profiles, disk, history, voice_mode, face_dataset, cfg, last,
          rq_pc, stream, frames, votes, result, prev_call, cap,
          records, en_pc, en_name, frame_counter, samples, en_ret, en_frame,
          knn, box>>

STRICT_AUTH == cfg.strict
HAS_CV2 == cfg.cv2
stt_available == cfg.stt
VOICE_MODE_DEFAULT == cfg.voice

\* the configurations the command loop is explored under: the defaults of
\* config.py, and relaxed mode on a machine without OpenCV and without
\* speech recognition
Configs ==
    { [strict |-> TRUE,  cv2 |-> TRUE,  stt |-> TRUE,  voice |-> TRUE],
      [strict |-> FALSE, cv2 |-> FALSE, stt |-> FALSE, voice |-> TRUE] }

\* the record of one loop iteration: the command, its argument, its outcome
\* and the identity the iteration started with
Done(c, a, o) == [cmd |-> c, arg |-> a, out |-> o, from |-> identity]

NoCommand == [cmd |-> "", arg |-> "", out |-> "", from |-> ""]

\* the enrolled labels of the face bank the recognition loop is explored with
BankLabels == {"Aldridge", "Bob"}

\* votes = {}
NoVotes == [l \in BankLabels |-> 0]

\* the files of face_dataset/ when it holds the labels of bank; the REPL
\* does not look into a record, its samples are followed in the enrollment
\* specification only
RecordsOf(bank) == [l \in EnrollNames |-> IF l \in bank THEN <<"stored">> ELSE <<>>]

\* no call of _knn made
NoKnn == [train |-> <<>>, sample |-> 0, k |-> 1, threshold |-> 0, out |-> -1,
          calls |-> 0, hi_threshold |-> 0, hi_out |-> -1]

\* no box assessed
NoBox == [w |-> 0, h |-> 0, fm |-> 0, enroll |-> "none", recog |-> "none"]

\* no iteration of capture_profile yet
NoFrame == [kind |-> "none", w |-> 0, h |-> 0, fm |-> 0, q |-> FALSE]

\* no call of recognize_quick, capture_profile or _knn under way
CameraIdle ==
    /\ rq_pc = "idle"
    /\ stream = <<>>
    /\ frames = 0
    /\ votes = NoVotes
    /\ result = "none"
    /\ prev_call = "none"
    /\ cap = "none"
    /\ en_pc = "idle"
    /\ en_name = ""
    /\ frame_counter = 0
    /\ samples = <<>>
    /\ en_ret = "none"
    /\ en_frame = NoFrame
    /\ knn = NoKnn
    /\ box = NoBox

Init ==
    /\ CameraIdle
    /\ pc = "startup"
    /\ identity = "LOCKED"
    /\ disk \in PersistedStores
    /\ profiles = disk
    /\ history = seed_chat_history("Aldridge")
    /\ voice_mode = FALSE
    /\ face_dataset \in {{}, {"Aldridge"}}
    /\ records = RecordsOf(face_dataset)
    /\ cfg \in Configs
    /\ last = NoCommand

\* ------------------------------------------------------------- recognition

\* reasons for which recognize_quick returns None
RecogFailures == {"no_cv2", "no_bank", "no_camera", "no_cascade", "timeout"}

\* what one call of recognize_quick can return: a failure, or the label of a
\* file of face_dataset/ (the label that reached need_votes)
RecognizeOutcomes(bank, cv2) ==
    IF ~cv2 THEN {"no_cv2"}
    ELSE IF bank = {} THEN {"no_bank"}
    ELSE {"no_camera", "no_cascade", "timeout"} \cup bank

\* `who` as the caller sees it: None for every failure
Who(o) == IF o \in RecogFailures THEN "none" ELSE o

\* faulty variant: every returned label is taken for an approved persona
IsAnyLabel(who) == who # "none"

\* `who in PERSONAS` after `if not who`
IsApprovedPersona(who) == who # "none" /\ who \in PERSONAS

\* faulty variant: relaxed mode prefers the saved identity to the recognized one
attempt_auto_identity_last_first(strict, who, lastid) ==
    IF strict
    THEN (IF IsApprovedPersona(who) THEN who ELSE "LOCKED")
    ELSE IF lastid \in PERSONAS THEN lastid
    ELSE IF IsApprovedPersona(who) THEN who
    ELSE "Aldridge"

\* attempt_auto_identity: the startup identity
attempt_auto_identity(strict, who, lastid) ==
    IF strict
    THEN (IF IsApprovedPersona(who) THEN who ELSE "LOCKED")
    ELSE IF IsApprovedPersona(who) THEN who
    ELSE IF lastid \in PERSONAS THEN lastid
    ELSE "Aldridge"

\* run_repl up to the main loop
Startup ==
    /\ pc = "startup"
    /\ \E o \in RecognizeOutcomes(face_dataset, HAS_CV2) :
        LET auto == attempt_auto_identity(STRICT_AUTH, Who(o), profiles.last)
            id == IF auto \notin PERSONAS /\ auto # "LOCKED" THEN "LOCKED" ELSE auto
            seed_key == IF id \in PERSONAS THEN id ELSE "Aldridge"
        IN  /\ identity' = id
            /\ profiles' = ensure_identity_struct(profiles, seed_key)
            /\ history' = seed_chat_history(seed_key)
            /\ voice_mode' = (VOICE_MODE_DEFAULT /\ stt_available /\ id # "LOCKED")
            /\ last' = Done("startup", "", o)
    /\ pc' = "continue"
    /\ UNCHANGED <<disk, face_dataset, cfg>>
    /\ UNCHANGED camera_vars

\* ------------------------------------------------------- the command loop

\* voice mode after a successful /recognize, /login or switch to guest
VoiceAfterUnlock == IF stt_available /\ VOICE_MODE_DEFAULT THEN TRUE ELSE voice_mode

\* the input stage yields no line: an empty typed line, or nothing heard
NoInput ==
    /\ pc = "input"
    /\ last' = Done("", "", "")
    /\ pc' = "continue"
    /\ UNCHANGED <<identity, profiles, disk, history, voice_mode, face_dataset, cfg>>
    /\ UNCHANGED camera_vars

\* do_voice_listen in voice mode hears an exit phrase
VoicePause ==
    /\ pc = "input"
    /\ voice_mode
    /\ stt_available
    /\ voice_mode' = FALSE
    /\ last' = Done("pause", "", "")
    /\ pc' = "continue"
    /\ UNCHANGED <<identity, profiles, disk, history, face_dataset, cfg>>
    /\ UNCHANGED camera_vars

Exit ==
    /\ pc = "input"
    /\ pc' = "exited"
    /\ last' = Done("/exit", "", "")
    /\ UNCHANGED <<identity, profiles, disk, history, voice_mode, face_dataset, cfg>>
    /\ UNCHANGED camera_vars

Help ==
    /\ pc = "input"
    /\ last' = Done("/help", "", "")
    /\ pc' = "continue"
    /\ UNCHANGED <<identity, profiles, disk, history, voice_mode, face_dataset, cfg>>
    /\ UNCHANGED camera_vars

\* faulty variant: a successful /recognize does not save _last_identity
RecognizeNoSave ==
    /\ pc = "input"
    /\ \E o \in RecognizeOutcomes(face_dataset, HAS_CV2) :
        /\ last' = Done("/recognize", "", o)
        /\ IF IsApprovedPersona(Who(o))
           THEN /\ identity' = o
                /\ profiles' = ensure_identity_struct([profiles EXCEPT !.last = o], o)
                /\ history' = seed_chat_history(o)
                /\ voice_mode' = VoiceAfterUnlock
                /\ UNCHANGED disk
           ELSE UNCHANGED <<identity, profiles, disk, history, voice_mode>>
    /\ pc' = "continue"
    /\ UNCHANGED <<face_dataset, cfg>>
    /\ UNCHANGED camera_vars

Recognize ==
    /\ pc = "input"
    /\ \E o \in RecognizeOutcomes(face_dataset, HAS_CV2) :
        /\ last' = Done("/recognize", "", o)
        /\ IF IsApprovedPersona(Who(o))
           THEN /\ identity' = o
                /\ disk' = [profiles EXCEPT !.last = o]
                /\ profiles' = ensure_identity_struct([profiles EXCEPT !.last = o], o)
                /\ history' = seed_chat_history(o)
                /\ voice_mode' = VoiceAfterUnlock
           ELSE UNCHANGED <<identity, profiles, disk, history, voice_mode>>
    /\ pc' = "continue"
    /\ UNCHANGED <<face_dataset, cfg>>
    /\ UNCHANGED camera_vars

\* faulty variant: enrolling a persona also logs in as that persona
SetupProfileLogsIn ==
    /\ pc = "input"
    /\ \E name \in EnrollNames \cup {""}, captured \in BOOLEAN :
        IF name = ""
        THEN /\ ~captured
             /\ last' = Done("/setup_profile", name, "usage")
             /\ UNCHANGED <<face_dataset, records, identity>>
        ELSE IF HAS_CV2 /\ captured
        THEN /\ name \in face_dataset \/ Cardinality(face_dataset) < MaxBank
             /\ face_dataset' = face_dataset \cup {name}
             /\ records' = RecordsOf(face_dataset')
             /\ identity' = IF name \in PERSONAS THEN name ELSE identity
             /\ last' = Done("/setup_profile", name, "enrolled")
        ELSE /\ ~captured
             /\ last' = Done("/setup_profile", name, "failed")
             /\ UNCHANGED <<face_dataset, records, identity>>
    /\ pc' = "continue"
    /\ UNCHANGED <<profiles, disk, history, voice_mode, cfg>>
    /\ UNCHANGED <<recog_vars, cap, enroll_vars, knn, box>>

\* /setup_profile <name>: capture_profile(name) writes face_dataset/<name>.npy
\* when at least one sample was captured
SetupProfile ==
    /\ pc = "input"
    /\ \E name \in EnrollNames \cup {""}, captured \in BOOLEAN :
        IF name = ""
        THEN /\ ~captured
             /\ last' = Done("/setup_profile", name, "usage")
             /\ UNCHANGED <<face_dataset, records>>
        ELSE IF HAS_CV2 /\ captured
        THEN /\ name \in face_dataset \/ Cardinality(face_dataset) < MaxBank
             /\ face_dataset' = face_dataset \cup {name}
             /\ records' = RecordsOf(face_dataset')
             /\ last' = Done("/setup_profile", name, "enrolled")
        ELSE /\ ~captured
             /\ last' = Done("/setup_profile", name, "failed")
             /\ UNCHANGED <<face_dataset, records>>
    /\ pc' = "continue"
    /\ UNCHANGED <<identity, profiles, disk, history, voice_mode, cfg>>
    /\ UNCHANGED <<recog_vars, cap, enroll_vars, knn, box>>

\* faulty variant: /lock stops voice mode and keeps the identity
LockVoiceOnly ==
    /\ pc = "input"
    /\ voice_mode' = FALSE
    /\ last' = Done("/lock", "", "")
    /\ pc' = "continue"
    /\ UNCHANGED <<identity, profiles, disk, history, face_dataset, cfg>>
    /\ UNCHANGED camera_vars

\* faulty variant: /lock is saved as the last identity
LockSavesIdentity ==
    /\ pc = "input"
    /\ identity' = "LOCKED"
    /\ voice_mode' = FALSE
    /\ profiles' = [profiles EXCEPT !.last = "LOCKED"]
    /\ disk' = profiles'
    /\ last' = Done("/lock", "", "")
    /\ pc' = "continue"
    /\ UNCHANGED <<history, face_dataset, cfg>>
    /\ UNCHANGED camera_vars

Lock ==
    /\ pc = "input"
    /\ identity' = "LOCKED"
    /\ voice_mode' = FALSE
    /\ last' = Done("/lock", "", "")
    /\ pc' = "continue"
    /\ UNCHANGED <<profiles, disk, history, face_dataset, cfg>>
    /\ UNCHANGED camera_vars

\* faulty variant: the bypass accepts every key of PERSONAS
LoginAllowedAnyPersona(devname) == devname \in PERSONAS

\* faulty variant: the bypass refuses guest and nothing else
LoginAllowedAnyName(devname) == Lower(devname) # "guest"

\* the dev bypass condition of /login
LoginAllowed(devname) == devname \in PERSONAS /\ Lower(devname) # "guest"

Login ==
    /\ pc = "input"
    /\ \E devname \in Names :
        IF LoginAllowed(devname)
        THEN /\ identity' = devname
             /\ disk' = [profiles EXCEPT !.last = devname]
             /\ profiles' = ensure_identity_struct([profiles EXCEPT !.last = devname], devname)
             /\ history' = seed_chat_history(devname)
             /\ voice_mode' = VoiceAfterUnlock
             /\ last' = Done("/login", devname, "ok")
        ELSE /\ last' = Done("/login", devname, "refused")
             /\ UNCHANGED <<identity, profiles, disk, history, voice_mode>>
    /\ pc' = "continue"
    /\ UNCHANGED <<face_dataset, cfg>>
    /\ UNCHANGED camera_vars

\* faulty variant: the toggle always lands on Professor
ToggleToProfessor(id) == "Professor"

\* the persona toggle of the bare /switch
Toggle(id) == IF id = "Aldridge" THEN "Professor" ELSE "Aldridge"

\* faulty variant: every identity but LOCKED may toggle
CanToggleUnlessLocked(id) == id # "LOCKED"

\* the condition of the persona toggle
CanToggle(id) == id \in {"Aldridge", "Professor"}

\* faulty variant: the switch to guest is saved as the last identity
SwitchSavesGuest ==
    /\ pc = "input"
    /\ IF CanToggle(identity)
       THEN /\ identity' = Toggle(identity)
            /\ profiles' = [ensure_identity_struct(profiles, Toggle(identity))
                                EXCEPT !.last = Toggle(identity)]
            /\ disk' = profiles'
            /\ history' = seed_chat_history(Toggle(identity))
            /\ last' = Done("/switch", "", "persona")
            /\ UNCHANGED voice_mode
       ELSE IF identity = "LOCKED"
       THEN /\ identity' = "guest"
            /\ history' = seed_chat_history("Aldridge")
            /\ voice_mode' = VoiceAfterUnlock
            /\ last' = Done("/switch", "", "guest")
            /\ profiles' = [profiles EXCEPT !.last = "guest"]
            /\ disk' = profiles'
       ELSE /\ last' = Done("/switch", "", "refused")
            /\ UNCHANGED <<identity, profiles, disk, history, voice_mode>>
    /\ pc' = "continue"
    /\ UNCHANGED <<face_dataset, cfg>>
    /\ UNCHANGED camera_vars

Switch ==
    /\ pc = "input"
    /\ IF CanToggle(identity)
       THEN /\ identity' = Toggle(identity)
            /\ profiles' = [ensure_identity_struct(profiles, Toggle(identity))
                                EXCEPT !.last = Toggle(identity)]
            /\ disk' = profiles'
            /\ history' = seed_chat_history(Toggle(identity))
            /\ last' = Done("/switch", "", "persona")
            /\ UNCHANGED voice_mode
       ELSE IF identity = "LOCKED"
       THEN /\ identity' = "guest"
            /\ history' = seed_chat_history("Aldridge")
            /\ voice_mode' = VoiceAfterUnlock
            /\ last' = Done("/switch", "", "guest")
            /\ UNCHANGED <<profiles, disk>>
       ELSE /\ last' = Done("/switch", "", "refused")
            /\ UNCHANGED <<identity, profiles, disk, history, voice_mode>>
    /\ pc' = "continue"
    /\ UNCHANGED <<face_dataset, cfg>>
    /\ UNCHANGED camera_vars

\* the gate of the sensitive commands
locked_like(id) == id = "LOCKED" \/ id = "guest"

Clear ==
    /\ pc = "input"
    /\ history' = seed_chat_history(IF identity \in PERSONAS THEN identity ELSE "Aldridge")
    /\ last' = Done("/clear", "", "")
    /\ pc' = "continue"
    /\ UNCHANGED <<identity, profiles, disk, voice_mode, face_dataset, cfg>>
    /\ UNCHANGED camera_vars

\* /model <name> and /voices: no effect on the session state
ModelOrVoices ==
    /\ pc = "input"
    /\ \E c \in {"/model", "/voices"} : last' = Done(c, "", "")
    /\ pc' = "continue"
    /\ UNCHANGED <<identity, profiles, disk, history, voice_mode, face_dataset, cfg>>
    /\ UNCHANGED camera_vars

\* /tts on|off, /voiceidx <n>, /rate <n> with a well-formed argument: the
\* preference of a persona is stored in its profile entry, which is created
\* when missing
PrefCommand ==
    /\ pc = "input"
    /\ \E c \in {"/tts", "/voiceidx", "/rate"} :
        IF identity \in PERSONAS
        THEN /\ profiles' = ensure_identity_struct(profiles, identity)
             /\ disk' = profiles'
             /\ last' = Done(c, "", "stored")
        ELSE /\ last' = Done(c, "", "session")
             /\ UNCHANGED <<profiles, disk>>
    /\ pc' = "continue"
    /\ UNCHANGED <<identity, history, voice_mode, face_dataset, cfg>>
    /\ UNCHANGED camera_vars

Voice ==
    /\ pc = "input"
    /\ \E arg \in {"on", "off", "status"} :
        /\ last' = Done("/voice", arg, "")
        /\ voice_mode' = CASE arg = "on"  -> (IF stt_available THEN TRUE ELSE voice_mode)
                           [] arg = "off" -> FALSE
                           [] OTHER       -> voice_mode
    /\ pc' = "continue"
    /\ UNCHANGED <<identity, profiles, disk, history, face_dataset, cfg>>
    /\ UNCHANGED camera_vars

\* faulty variant: every identity may grant and revoke
SetCalendarByAnyone(c, flag) ==
    /\ pc = "input"
    /\ \E target \in GrantTargets :
        IF target \notin PERSONAS
        THEN /\ last' = Done(c, target, "no_persona")
             /\ UNCHANGED <<profiles, disk>>
        ELSE /\ profiles' = [ensure_identity_struct(profiles, target) EXCEPT !.cal[target] = flag]
             /\ disk' = profiles'
             /\ last' = Done(c, target, "done")
    /\ pc' = "continue"
    /\ UNCHANGED <<identity, history, voice_mode, face_dataset, cfg>>
    /\ UNCHANGED camera_vars

\* /grant_calendar <target> (flag = "true"), /revoke_calendar <target> ("false")
SetCalendar(c, flag) ==
    /\ pc = "input"
    /\ \E target \in GrantTargets :
        IF identity # "Aldridge"
        THEN /\ last' = Done(c, target, "not_aldridge")
             /\ UNCHANGED <<profiles, disk>>
        ELSE IF target \notin PERSONAS
        THEN /\ last' = Done(c, target, "no_persona")
             /\ UNCHANGED <<profiles, disk>>
        ELSE /\ profiles' = [ensure_identity_struct(profiles, target) EXCEPT !.cal[target] = flag]
             /\ disk' = profiles'
             /\ last' = Done(c, target, "done")
    /\ pc' = "continue"
    /\ UNCHANGED <<identity, history, voice_mode, face_dataset, cfg>>
    /\ UNCHANGED camera_vars

GrantCalendar == SetCalendar("/grant_calendar", "true")

RevokeCalendar == SetCalendar("/revoke_calendar", "false")

\* faulty variant: the calendar gate forgets guest
AgendaOutcomeGuestOpen(id, p) ==
    IF id = "LOCKED" THEN "denied"
    ELSE IF ~has_calendar_permission(id, p) THEN "noperm"
    ELSE "calendar"

\* outcome of /agenda
AgendaOutcome(id, p) ==
    IF locked_like(id) THEN "denied"
    ELSE IF ~has_calendar_permission(id, p) THEN "noperm"
    ELSE "calendar"

Agenda ==
    /\ pc = "input"
    /\ last' = Done("/agenda", "", AgendaOutcome(identity, profiles))
    /\ pc' = "continue"
    /\ UNCHANGED <<identity, profiles, disk, history, voice_mode, face_dataset, cfg>>
    /\ UNCHANGED camera_vars

\* ----------------------------------------------------------- free text

\* lines that match no command:
\*   "cal"      a calendar question with one of the cal_words ("what's on my
\*              calendar today")
\*   "caldate"  a question handle_calendar_text answers, without any of the
\*              cal_words ("events tomorrow")
\*   "nav home" a navigation request ("take me to home")
\*   "/switch guest", "/switch Professor"   no command: `low == "/switch"` fails
\*   "chat"     anything else
Texts == {"chat", "cal", "caldate", "nav home", "/switch guest", "/switch Professor"}

\* what /mic can capture
Spoken == {"chat", "cal", "caldate", "nav home"}

\* handle_calendar_text(user) returns handled = True
CalendarHandles(t) == t \in {"cal", "caldate"}

\* any(w in low for w in cal_words)
HasCalWords(t) == t = "cal"

\* nav_match and the place key it yields
NavMatches(t) == t = "nav home"

NavPlace(t) == "home"

\* lines 513-532: the natural-language calendar block; "pass" = falls through
CalendarText(id, p, t) ==
    IF ~locked_like(id) /\ has_calendar_permission(id, p)
    THEN (IF CalendarHandles(t) THEN "calendar" ELSE "pass")
    ELSE IF HasCalWords(t) THEN (IF locked_like(id) THEN "denied" ELSE "noperm")
    ELSE "pass"

\* lines 588-594: the calendar intent after a /mic capture
MicCalendarText(id, p, t) ==
    IF ~locked_like(id) /\ has_calendar_permission(id, p) /\ CalendarHandles(t)
    THEN "calendar" ELSE "pass"

\* lines 597-618: natural-language navigation; "pass" = falls through
NavText(id, p, t) ==
    IF ~NavMatches(t) THEN "pass"
    ELSE IF locked_like(id) THEN "nav_denied"
    ELSE IF NavPlace(t) \notin p.places[id] THEN "noplace"
    ELSE "nav"

\* lines 620-629: the LLM turn; the history grows when chat_turn returns
ChatFallback(c, t) ==
    \E ok \in BOOLEAN :
        IF ok
        THEN /\ Len(history.turns) < MaxTurns
             /\ history' = [history EXCEPT !.turns = Append(@, identity)]
             /\ last' = Done(c, t, "chat")
        ELSE /\ last' = Done(c, t, "llm_error")
             /\ UNCHANGED history

\* the tail shared by typed text and /mic: navigation, then chat
NavOrChat(c, t) ==
    IF NavText(identity, profiles, t) # "pass"
    THEN /\ last' = Done(c, t, NavText(identity, profiles, t))
         /\ UNCHANGED history
    ELSE ChatFallback(c, t)

Text ==
    /\ pc = "input"
    /\ \E t \in Texts :
        IF CalendarText(identity, profiles, t) # "pass"
        THEN /\ last' = Done("text", t, CalendarText(identity, profiles, t))
             /\ UNCHANGED history
        ELSE NavOrChat("text", t)
    /\ pc' = "continue"
    /\ UNCHANGED <<identity, profiles, disk, voice_mode, face_dataset, cfg>>
    /\ UNCHANGED camera_vars

Mic ==
    /\ pc = "input"
    /\ IF ~stt_available
       THEN /\ last' = Done("/mic", "", "nostt")
            /\ UNCHANGED history
       ELSE \/ /\ last' = Done("/mic", "", "nothing")
               /\ UNCHANGED history
            \/ \E t \in Spoken :
                IF MicCalendarText(identity, profiles, t) # "pass"
                THEN /\ last' = Done("/mic", t, "calendar")
                     /\ UNCHANGED history
                ELSE NavOrChat("/mic", t)
    /\ pc' = "continue"
    /\ UNCHANGED <<identity, profiles, disk, voice_mode, face_dataset, cfg>>
    /\ UNCHANGED camera_vars

\* ------------------------------------------------------------ saved places

\* faulty variant: the navigation gate forgets guest
NavOutcomeGuestOpen(id, p, key) ==
    IF id = "LOCKED" THEN "denied"
    ELSE IF key \notin p.places[id] THEN "noplace"
    ELSE "nav"

\* outcome of /nav <key>
NavOutcome(id, p, key) ==
    IF locked_like(id) THEN "denied"
    ELSE IF key \notin p.places[id] THEN "noplace"
    ELSE "nav"

Nav ==
    /\ pc = "input"
    /\ \E key \in PlaceKeys : last' = Done("/nav", key, NavOutcome(identity, profiles, key))
    /\ pc' = "continue"
    /\ UNCHANGED <<identity, profiles, disk, history, voice_mode, face_dataset, cfg>>
    /\ UNCHANGED camera_vars

SetPlace ==
    /\ pc = "input"
    /\ \E key \in PlaceKeys \cup {""} :
        IF locked_like(identity)
        THEN /\ last' = Done("/setplace", key, "denied")
             /\ UNCHANGED <<profiles, disk>>
        ELSE IF key = ""
        THEN /\ last' = Done("/setplace", key, "usage")
             /\ UNCHANGED <<profiles, disk>>
        ELSE /\ profiles' = [ensure_identity_struct(profiles, identity)
                                EXCEPT !.places[identity] = @ \cup {key}]
             /\ disk' = profiles'
             /\ last' = Done("/setplace", key, "saved")
    /\ pc' = "continue"
    /\ UNCHANGED <<identity, history, voice_mode, face_dataset, cfg>>
    /\ UNCHANGED camera_vars

\* outcome of /places
PlacesOutcome(id, p) ==
    IF locked_like(id) THEN "denied"
    ELSE IF p.places[id] = {} THEN "empty"
    ELSE "listed"

Places ==
    /\ pc = "input"
    /\ last' = Done("/places", "", PlacesOutcome(identity, profiles))
    /\ pc' = "continue"
    /\ UNCHANGED <<identity, profiles, disk, history, voice_mode, face_dataset, cfg>>
    /\ UNCHANGED camera_vars

\* `continue`: back to the input stage of the main loop
Continue ==
    /\ pc = "continue"
    /\ pc' = "input"
    /\ last' = NoCommand
    /\ UNCHANGED <<identity, profiles, disk, history, voice_mode, face_dataset, cfg>>
    /\ UNCHANGED camera_vars

\* ------------------------------------------------------------ specification

Next ==
    \/ Startup
    \/ NoInput
    \/ VoicePause
    \/ Exit
    \/ Help
    \/ Recognize
    \/ SetupProfile
    \/ Lock
    \/ Login
    \/ Switch
    \/ Clear
    \/ ModelOrVoices
    \/ PrefCommand
    \/ Voice
    \/ GrantCalendar
    \/ RevokeCalendar
    \/ Agenda
    \/ Text
    \/ Mic
    \/ Nav
    \/ SetPlace
    \/ Places
    \/ Continue

Spec == Init /\ [][Next]_vars

\* ------------------------------------------------- the startup on its own

\* every combination of STRICT_AUTH, HAS_CV2, stt.available and
\* VOICE_MODE_DEFAULT
AllConfigs == [strict : BOOLEAN, cv2 : BOOLEAN, stt : BOOLEAN, voice : BOOLEAN]

\* the face_dataset/ directories a run can find at launch: what
\* /setup_profile wrote in earlier runs
StartupBanks == {b \in SUBSET EnrollNames : Cardinality(b) <= MaxBank}

\* the launch of run_repl under every configuration, store and face bank
InitStartup ==
    /\ CameraIdle
    /\ pc = "startup"
    /\ identity = "LOCKED"
    /\ disk \in PersistedStores
    /\ profiles = disk
    /\ history = seed_chat_history("Aldridge")
    /\ voice_mode = FALSE
    /\ face_dataset \in StartupBanks
    /\ records = RecordsOf(face_dataset)
    /\ cfg \in AllConfigs
    /\ last = NoCommand

NextStartup == Startup

SpecStartup == InitStartup /\ [][NextStartup]_vars

\* ------------------------------------------------ recognize_quick, the loop

\* the variables of run_repl
repl_vars == <<pc, identity, profiles, disk, history, voice_mode, face_dataset, cfg, last>>

\* bound: timeout_frames of the explored call (the REPL passes 250)
timeout_frames == 3

\* bound: need_votes of the explored call (the REPL passes 5)
need_votes == 2

\* what the loop body does with one detected box:
\*   "small"     w or h below FACE_MIN_SIZE
\*   "blurred"   sharpness outside [FACE_BLUR_THRESH, FACE_MAX_BLUR]
\*   "rejected"  _knn returned -1
\*   a label     names[pred_id]
Faces == {"small", "blurred", "rejected"} \cup BankLabels

\* cap.read() returned ret = False or frame = None
Unreadable == [ok |-> FALSE, faces |-> <<>>]

\* a frame that was read, with the boxes of detectMultiScale in their order
Frame(fs) == [ok |-> TRUE, faces |-> fs]

\* the frames a camera delivers: unreadable, no face, one face of each kind,
\* and frames with two faces
FrameKinds ==
    {Unreadable, Frame(<<>>)}
        \cup {Frame(<<f>>) : f \in Faces}
        \cup {Frame(<<"Aldridge", "Bob">>), Frame(<<"Bob", "Bob">>),
              Frame(<<"small", "Aldridge">>)}

\* what the camera would deliver during the whole frame budget
Streams == [1..timeout_frames -> FrameKinds]

\* the i-th cap.read(); a camera that has stopped delivering returns ret = False
FrameAt(i) == IF i \in 1..Len(stream) THEN stream[i] ELSE Unreadable

\* faulty variant: a box the classifier rejects votes for Aldridge
FaceVoteNoRejection(face) ==
    IF face \in BankLabels THEN face
    ELSE IF face = "rejected" THEN "Aldridge"
    ELSE "none"

\* lines 398-420: the name a box votes for, "none" when the box is skipped
FaceVote(face) == IF face \in BankLabels THEN face ELSE "none"

\* faulty variant: a label has to exceed need_votes
ReachedAbove(n) == n > need_votes

\* votes[name] >= need_votes
Reached(n) == n >= need_votes

\* lines 397-426: the loop over the boxes of one frame; winner is the name
\* the function returns from inside the loop, "none" when the loop runs out
RECURSIVE ProcessFaces(_, _)
ProcessFaces(v, faces) ==
    IF faces = <<>> THEN [votes |-> v, winner |-> "none"]
    ELSE LET name == FaceVote(Head(faces))
             v2 == [v EXCEPT ![name] = @ + 1]
         IN  IF name = "none" THEN ProcessFaces(v, Tail(faces))
             ELSE IF Reached(v2[name]) THEN [votes |-> v2, winner |-> name]
             ELSE ProcessFaces(v2, Tail(faces))

\* faulty variant: the loop runs while frames <= timeout_frames
WithinBudgetInclusive(n) == n <= timeout_frames

\* while frames < timeout_frames
WithinBudget(n) == n < timeout_frames

\* faulty variant: the label with the most votes is returned after the loop
LoopExitLeader(v) ==
    IF \A l \in BankLabels : v[l] = 0 THEN "none"
    ELSE CHOOSE l \in BankLabels : \A m \in BankLabels : v[m] <= v[l]

\* line 430: return None
LoopExitResult(v) == "none"

\* a call of recognize_quick on its own: the REPL waits for the result
InitRecognize ==
    /\ CameraIdle
    /\ pc = "input"
    /\ identity = "LOCKED"
    /\ disk = EmptyStore
    /\ profiles = disk
    /\ history = seed_chat_history("Aldridge")
    /\ voice_mode = FALSE
    /\ face_dataset \in {{}, BankLabels}
    /\ records = RecordsOf(face_dataset)
    /\ cfg \in Configs
    /\ last = NoCommand

\* the outcomes of the checks of lines 361-383, in their order: OpenCV, the
\* face bank, the camera, the cascade; "open" when all of them pass
Prechecks(cv2, bank) ==
    IF ~cv2 THEN {"no_cv2"}
    ELSE IF bank = {} THEN {"no_bank"}
    ELSE {"no_camera", "no_cascade", "open"}

\* faulty variant: the camera is acquired, and given back, before the bank
\* is found empty
CapAfterAcquireFirst(pre) ==
    CASE pre = "open" -> "open"
      [] pre \in {"no_cascade", "no_bank"} -> "released"
      [] OTHER -> "none"

\* the camera handle after the checks: acquired by _open_camera, released
\* when the cascade is missing or empty
CapAfter(pre) ==
    CASE pre = "open" -> "open"
      [] pre = "no_cascade" -> "released"
      [] OTHER -> "none"

\* faulty variant: the tally of the call before is kept
CarriedVotes(v) == v

\* line 385: votes = {}
FreshVotes(v) == NoVotes

\* how the call that has just returned ended
EndOfCall ==
    IF rq_pc = "idle" THEN "none"
    ELSE IF stream = <<>> THEN "failed"
    ELSE IF result # "none" THEN "accept"
    ELSE "timeout"

\* what the camera shows during a call that follows another one: the same
\* frames once more, or nobody
NextStreams ==
    IF rq_pc = "idle" THEN Streams
    ELSE {stream, [i \in 1..timeout_frames |-> Frame(<<>>)]}

\* lines 361-386: the checks before the loop, then votes = {} and frames = 0;
\* the REPL calls one routine at a time, and the locals of an earlier
\* capture_profile are gone
RecognizeQuickBegin ==
    /\ rq_pc \in {"idle", "done"}
    /\ en_pc \in {"idle", "done"}
    /\ prev_call' = EndOfCall
    /\ \E pre \in Prechecks(HAS_CV2, face_dataset) :
        /\ cap' = CapAfter(pre)
        /\ IF pre = "open"
           THEN /\ rq_pc' = "loop"
                /\ stream' \in NextStreams
                /\ frames' = 0
                /\ votes' = FreshVotes(votes)
                /\ result' = "none"
           ELSE /\ rq_pc' = "done"
                /\ stream' = <<>>
                /\ frames' = 0
                /\ votes' = NoVotes
                /\ result' = "none"
    /\ en_pc' = "idle"
    /\ en_name' = ""
    /\ frame_counter' = 0
    /\ samples' = <<>>
    /\ en_ret' = "none"
    /\ en_frame' = NoFrame
    /\ UNCHANGED <<repl_vars, records, knn, box>>

\* lines 388-426: one iteration of the while loop
ReadFrame ==
    /\ rq_pc = "loop"
    /\ WithinBudget(frames)
    /\ frames' = frames + 1
    /\ LET frame == FrameAt(frames + 1)
           r == ProcessFaces(votes, frame.faces)
       IN  IF ~frame.ok
           THEN UNCHANGED <<votes, rq_pc, result>>
           ELSE /\ votes' = r.votes
                /\ IF r.winner # "none"
                   THEN /\ rq_pc' = "done"
                        /\ result' = r.winner
                   ELSE UNCHANGED <<rq_pc, result>>
    /\ cap' = IF rq_pc' = "done" THEN "released" ELSE cap
    /\ UNCHANGED <<stream, prev_call>>
    /\ UNCHANGED <<repl_vars, records, enroll_vars, knn, box>>

\* lines 428-430: the loop condition fails
LoopExit ==
    /\ rq_pc = "loop"
    /\ ~WithinBudget(frames)
    /\ rq_pc' = "done"
    /\ result' = LoopExitResult(votes)
    /\ cap' = "released"
    /\ UNCHANGED <<stream, frames, votes, prev_call>>
    /\ UNCHANGED <<repl_vars, records, enroll_vars, knn, box>>

NextRecognize ==
    \/ RecognizeQuickBegin
    \/ ReadFrame
    \/ LoopExit

\* the call runs to its end: nothing in the loop waits
SpecRecognize == InitRecognize /\ [][NextRecognize]_vars /\ WF_vars(NextRecognize)

\* ------------------------------------------------------------------- _knn

\* bound: rows of the bank handed to _knn
MaxRows == 3

\* feature vectors, of one component
Features == {0, 1, 3}

\* class ids of _load_face_bank
ClassIds == {0, 1}

\* a row of train: the vector and, in the last column, the class id
TrainRows == [x : Features, lbl : ClassIds]

\* the banks _knn is called with: at least one row
Trains == UNION {[1..n -> TrainRows] : n \in 1..MaxRows}

\* the values of k and of threshold _knn is called with
Ks == {1, 2, 3}

Thresholds == {0, 1, 2}

\* np.sqrt((diff * diff).sum()) of vectors of one component
_euclid_dist(v1, v2) ==
    LET diff == v1 - v2
    IN  CHOOSE r \in 0..(diff * diff) : r * r = diff * diff

\* lines 338-342: the (dist, lbl) pairs in the order of the rows
Dists(train, test_vec) ==
    [i \in 1..Len(train) |->
        [dist |-> _euclid_dist(test_vec, train[i].x), lbl |-> train[i].lbl]]

\* one step of the stable sort: e goes behind every pair that is not farther
InsertByDist(sorted, e) ==
    LET n == Cardinality({i \in 1..Len(sorted) : sorted[i].dist <= e.dist})
    IN  SubSeq(sorted, 1, n) \o <<e>> \o SubSeq(sorted, n + 1, Len(sorted))

\* line 344: dists.sort(key=lambda t: t[0]), a stable sort
RECURSIVE SortByDist(_)
SortByDist(ds) ==
    IF ds = <<>> THEN <<>>
    ELSE InsertByDist(SortByDist(SubSeq(ds, 1, Len(ds) - 1)), ds[Len(ds)])

\* faulty variant: a nearest distance equal to the threshold is rejected too
RejectsAtThreshold(d, threshold) == d >= threshold

\* faulty variant: the comparison is the wrong way round
RejectsNear(d, threshold) == d < threshold

\* line 347: dists[0][0] > threshold
Rejects(d, threshold) == d > threshold

\* lines 350-352: np.unique sorts the labels of top, np.argmax takes the
\* first of the largest counts: the smallest class id among the most frequent
MostFrequent(top) ==
    LET count(v) == Cardinality({i \in 1..Len(top) : top[i] = v})
        vals == {top[i] : i \in 1..Len(top)}
    IN  CHOOSE v \in vals :
            /\ \A u \in vals : count(u) <= count(v)
            /\ \A u \in vals : count(u) = count(v) => v <= u

_knn(train, test_vec, k, threshold) ==
    LET dists == SortByDist(Dists(train, test_vec))
        kk == IF k < Len(dists) THEN k ELSE Len(dists)
        top == [i \in 1..kk |-> dists[i].lbl]
    IN  IF Rejects(dists[1].dist, threshold) THEN -1 ELSE MostFrequent(top)

\* the rest of the state while _knn is looked at
outside_knn == <<repl_vars, recog_vars, cap, records, enroll_vars, box>>

\* the arguments of a call of _knn
InitKnn ==
    /\ rq_pc = "idle"
    /\ stream = <<>>
    /\ frames = 0
    /\ votes = NoVotes
    /\ result = "none"
    /\ prev_call = "none"
    /\ cap = "none"
    /\ en_pc = "idle"
    /\ en_name = ""
    /\ frame_counter = 0
    /\ samples = <<>>
    /\ en_ret = "none"
    /\ en_frame = NoFrame
    /\ box = NoBox
    /\ pc = "input"
    /\ identity = "LOCKED"
    /\ disk = EmptyStore
    /\ profiles = disk
    /\ history = seed_chat_history("Aldridge")
    /\ voice_mode = FALSE
    /\ face_dataset = BankLabels
    /\ records = RecordsOf(face_dataset)
    /\ cfg \in {c \in Configs : c.cv2}
    /\ last = NoCommand
    /\ knn \in [train : Trains, sample : Features, k : Ks, threshold : Thresholds,
                out : {-1}, calls : {0}, hi_threshold : {0}, hi_out : {-1}]

\* _knn(train, test_vec, k, threshold)
KnnCall ==
    /\ knn.calls = 0
    /\ knn' = [knn EXCEPT !.calls = 1,
                          !.out = _knn(knn.train, knn.sample, knn.k, knn.threshold)]
    /\ UNCHANGED outside_knn

\* the same sample once more, with a lower threshold
KnnCallLower ==
    /\ knn.calls = 1
    /\ \E t \in Thresholds :
        /\ t < knn.threshold
        /\ knn' = [knn EXCEPT !.calls = 2,
                              !.hi_threshold = knn.threshold,
                              !.hi_out = knn.out,
                              !.threshold = t,
                              !.out = _knn(knn.train, knn.sample, knn.k, t)]
    /\ UNCHANGED outside_knn

NextKnn ==
    \/ KnnCall
    \/ KnnCallLower

SpecKnn == InitKnn /\ [][NextKnn]_vars

\* ----------------------------------------------------- the quality checks

\* config.py, the defaults
FACE_MIN_SIZE == 80

FACE_BLUR_THRESH == 100

FACE_MAX_BLUR == 600

\* widths and heights of a detected box, in pixels
BoxSizes == {0, 79, 80, 81, 200}

\* sharpness scores (variance of the Laplacian) of a crop
SharpnessScores == {0, 99, 100, 101, 599, 600, 601}

\* capture_profile, line 236: w >= FACE_MIN_SIZE and h >= FACE_MIN_SIZE
EnrollSizeOk(w, h) == w >= FACE_MIN_SIZE /\ h >= FACE_MIN_SIZE

\* capture_profile, line 247: FACE_BLUR_THRESH <= fm <= FACE_MAX_BLUR
EnrollSharpOk(fm) == FACE_BLUR_THRESH <= fm /\ fm <= FACE_MAX_BLUR

\* capture_profile, lines 236-265, for the box it has picked:
\*   "small"   the size test fails, nothing is done with the box
\*   "blurry"  fm < FACE_BLUR_THRESH, "bright" fm > FACE_MAX_BLUR
\*   "sample"  frame_counter += 1, and roi100 is a sample every keep_every
enroll_box(w, h, fm) ==
    IF ~EnrollSizeOk(w, h) THEN "small"
    ELSE IF EnrollSharpOk(fm) THEN "sample"
    ELSE IF fm < FACE_BLUR_THRESH THEN "blurry"
    ELSE "bright"

\* faulty variant: a box is skipped only when both sides are too short
TooSmallBoth(w, h) == w < FACE_MIN_SIZE /\ h < FACE_MIN_SIZE

\* recognize_quick, line 398: w < FACE_MIN_SIZE or h < FACE_MIN_SIZE
TooSmall(w, h) == w < FACE_MIN_SIZE \/ h < FACE_MIN_SIZE

\* faulty variant: a score equal to FACE_MAX_BLUR is refused
RecogSharpBelowMax(fm) == FACE_BLUR_THRESH <= fm /\ fm < FACE_MAX_BLUR

\* recognize_quick, line 411: FACE_BLUR_THRESH <= fm <= FACE_MAX_BLUR
RecogSharpOk(fm) == FACE_BLUR_THRESH <= fm /\ fm <= FACE_MAX_BLUR

\* recognize_quick, lines 398-414, for one box:
\*   "small", "blurred"  continue
\*   "classified"        roi100 is handed to _knn
recog_box(w, h, fm) ==
    IF TooSmall(w, h) THEN "small"
    ELSE IF ~RecogSharpOk(fm) THEN "blurred"
    ELSE "classified"

\* the rest of the state while a box is looked at
outside_box == <<repl_vars, recog_vars, cap, records, enroll_vars, knn>>

\* a detected box with its size and the sharpness of its crop
InitQuality ==
    /\ rq_pc = "idle"
    /\ stream = <<>>
    /\ frames = 0
    /\ votes = NoVotes
    /\ result = "none"
    /\ prev_call = "none"
    /\ cap = "none"
    /\ en_pc = "idle"
    /\ en_name = ""
    /\ frame_counter = 0
    /\ samples = <<>>
    /\ en_ret = "none"
    /\ en_frame = NoFrame
    /\ knn = NoKnn
    /\ pc = "input"
    /\ identity = "LOCKED"
    /\ disk = EmptyStore
    /\ profiles = disk
    /\ history = seed_chat_history("Aldridge")
    /\ voice_mode = FALSE
    /\ face_dataset = BankLabels
    /\ records = RecordsOf(face_dataset)
    /\ cfg \in {c \in Configs : c.cv2}
    /\ last = NoCommand
    /\ box \in [w : BoxSizes, h : BoxSizes, fm : SharpnessScores,
                enroll : {"none"}, recog : {"none"}]

\* the box is the one capture_profile picked in a frame
AssessForEnrollment ==
    /\ box.enroll = "none"
    /\ box' = [box EXCEPT !.enroll = enroll_box(box.w, box.h, box.fm)]
    /\ UNCHANGED outside_box

\* the box is one of those recognize_quick goes through
AssessForRecognition ==
    /\ box.recog = "none"
    /\ box' = [box EXCEPT !.recog = recog_box(box.w, box.h, box.fm)]
    /\ UNCHANGED outside_box

NextQuality ==
    \/ AssessForEnrollment
    \/ AssessForRecognition

SpecQuality == InitQuality /\ [][NextQuality]_vars

\* ----------------------------------------------------------- enrollment

\* bound: keep_every of the explored call (the default is 10)
keep_every == 2

\* bound: max_frames of the explored call (the default is 1000)
max_frames == 4

\* names typed after /setup_profile: two plain names and a name with a
\* directory part
EnrollInputs == {"Aldridge", "Bob", "./Bob"}

\* line 282: os.path.join("face_dataset", f"{name}.npy"), as the file of
\* face_dataset/ the path leads to, without its ".npy"
RecordFile(name) == IF name = "./Bob" THEN "Bob" ELSE name

\* the record stored for a label, <<>> when there is no file
StoredRecord(recs, name) == recs[RecordFile(name)]

\* _load_face_bank, lines 306-315: names gets one entry per .npy file, the
\* file name without ".npy"
_load_face_bank_names(recs) == {fn \in DOMAIN recs : recs[fn] # <<>>}

\* lines 190-213: what stops capture_profile before its loop
EnrollPrechecks(cv2) ==
    IF ~cv2 THEN {"no_cv2"}
    ELSE {"no_camera", "no_cascade", "empty_cascade", "open"}

\* lines 194-213: the camera after the checks; cap.release() on lines 206, 212
EnrollCapAfter(pre) ==
    CASE pre = "open" -> "open"
      [] pre \in {"no_cascade", "empty_cascade"} -> "released"
      [] OTHER -> "none"

\* what one iteration finds: no frame, a frame without a face, or a frame
\* whose largest box has a width, a height and a sharpness
EnrollFrames ==
    {[kind |-> "unreadable", w |-> 0, h |-> 0, fm |-> 0],
     [kind |-> "no_face", w |-> 0, h |-> 0, fm |-> 0]}
    \cup [kind : {"face"}, w : {79, 80}, h : {79, 80}, fm : {99, 100, 600, 601}]

\* lines 232-250: whether the frame is counted
Counted(f) == f.kind = "face" /\ enroll_box(f.w, f.h, f.fm) = "sample"

\* faulty variant: every frame with a face is counted
CounterAfterEveryFace(fc, f) == IF f.kind = "face" THEN fc + 1 ELSE fc

\* lines 248-250: frame_counter after the frame
CounterAfter(fc, f) == IF Counted(f) THEN fc + 1 ELSE fc

\* lines 249-250: samples after the frame
SamplesAfter(smp, fc, f) ==
    IF Counted(f) /\ (fc + 1) % keep_every = 0 THEN Append(smp, "new") ELSE smp

\* lines 224-227 and 274: whether the loop is left after the frame
Leaves(f, q, fc) ==
    IF f.kind = "unreadable" THEN q ELSE q \/ fc >= max_frames

\* faulty variant: the file is written whatever was captured
SaveAlways(recs, name, smp) == [recs EXCEPT ![RecordFile(name)] = smp]

\* lines 280-284: np.save of the samples, when there are any
SaveIfAny(recs, name, smp) ==
    IF smp # <<>> THEN [recs EXCEPT ![RecordFile(name)] = smp] ELSE recs

\* the rest of the state during capture_profile
outside_enroll ==
    <<pc, identity, profiles, disk, history, voice_mode, cfg, last,
      recog_vars, knn, box>>

\* the same without the locals of recognize_quick
outside_cameras ==
    <<pc, identity, profiles, disk, history, voice_mode, cfg, last, knn, box>>

\* a face_dataset/ with some records, before any call
InitEnroll ==
    /\ CameraIdle
    /\ pc = "input"
    /\ identity = "LOCKED"
    /\ disk = EmptyStore
    /\ profiles = disk
    /\ history = seed_chat_history("Aldridge")
    /\ voice_mode = FALSE
    /\ face_dataset \in SUBSET BankLabels
    /\ records = RecordsOf(face_dataset)
    /\ cfg \in Configs
    /\ last = NoCommand

\* lines 190-219: the checks before the loop, then samples = [] and
\* frame_counter = 0; the REPL calls one routine at a time, and the locals of
\* an earlier recognize_quick are gone
CaptureProfileBegin ==
    /\ en_pc \in {"idle", "done"}
    /\ rq_pc \in {"idle", "done"}
    /\ \E name \in EnrollInputs, pre \in EnrollPrechecks(HAS_CV2) :
        /\ en_name' = name
        /\ cap' = EnrollCapAfter(pre)
        /\ en_pc' = IF pre = "open" THEN "loop" ELSE "done"
        /\ en_ret' = IF pre = "open" THEN "none" ELSE "False"
    /\ en_frame' = NoFrame
    /\ frame_counter' = 0
    /\ samples' = <<>>
    /\ rq_pc' = "idle"
    /\ stream' = <<>>
    /\ frames' = 0
    /\ votes' = NoVotes
    /\ result' = "none"
    /\ prev_call' = "none"
    /\ UNCHANGED <<face_dataset, records, outside_cameras>>

\* lines 221-288: one iteration of the while loop and, when it is the last,
\* the release of the camera, the save and the return
EnrollFrame ==
    /\ en_pc = "loop"
    /\ \E f \in EnrollFrames, q \in BOOLEAN :
        /\ en_frame' = [kind |-> f.kind, w |-> f.w, h |-> f.h, fm |-> f.fm, q |-> q]
        /\ frame_counter' = CounterAfter(frame_counter, f)
        /\ samples' = SamplesAfter(samples, frame_counter, f)
        /\ IF Leaves(f, q, frame_counter')
           THEN /\ en_pc' = "done"
                /\ cap' = "released"
                /\ records' = SaveIfAny(records, en_name, samples')
                /\ face_dataset' = _load_face_bank_names(records')
                /\ en_ret' = IF samples' # <<>> THEN "True" ELSE "False"
           ELSE UNCHANGED <<en_pc, cap, records, face_dataset, en_ret>>
    /\ UNCHANGED <<en_name, outside_enroll>>

NextEnroll ==
    \/ CaptureProfileBegin
    \/ EnrollFrame

SpecEnroll == InitEnroll /\ [][NextEnroll]_vars

\* ------------------------------------------------- the camera on an error

\* lines 388-426, without a try/finally: an exception raised in an iteration
\* (cv2.error from cap.read, cvtColor or detectMultiScale, KeyboardInterrupt)
\* leaves recognize_quick at once, past both cap.release(); run_repl does not
\* catch it either
ReadFrameRaises ==
    /\ rq_pc = "loop"
    /\ WithinBudget(frames)
    /\ frames' = frames + 1
    /\ rq_pc' = "raised"
    /\ UNCHANGED <<cap, stream, votes, result, prev_call>>
    /\ UNCHANGED <<repl_vars, records, enroll_vars, knn, box>>

\* lines 221-275, without a try/finally: an exception raised in an iteration
\* (cv2.error from cv2.imshow without a display, KeyboardInterrupt) leaves
\* capture_profile at once, past cap.release() of line 277
EnrollFrameRaises ==
    /\ en_pc = "loop"
    /\ en_pc' = "raised"
    /\ UNCHANGED <<cap, en_name, frame_counter, samples, en_ret, en_frame>>
    /\ UNCHANGED <<face_dataset, records, outside_enroll>>

\* both enrolled labels on disk, before any call
InitRelease ==
    /\ CameraIdle
    /\ pc = "input"
    /\ identity = "LOCKED"
    /\ disk = EmptyStore
    /\ profiles = disk
    /\ history = seed_chat_history("Aldridge")
    /\ voice_mode = FALSE
    /\ face_dataset = BankLabels
    /\ records = RecordsOf(face_dataset)
    /\ cfg \in Configs
    /\ last = NoCommand

\* calls of recognize_quick and capture_profile one after the other, each
\* with every way out of it
NextRelease ==
    \/ RecognizeQuickBegin
    \/ ReadFrame
    \/ LoopExit
    \/ ReadFrameRaises
    \/ CaptureProfileBegin
    \/ EnrollFrame
    \/ EnrollFrameRaises

SpecRelease == InitRelease /\ [][NextRelease]_vars

\* ------------------------------------------ the bank during an attempt

\* the .npy files in the order of os.listdir, which is taken as fixed
BankFiles == <<"Aldridge", "Bob">>

\* the samples one file can hold: none (no file) or one vector
FileSamples == {<<>>} \cup {<<x>> : x \in Features}

\* the files that exist, in their order
ExistingFiles(recs) ==
    LET exists(fn) == recs[fn] # <<>>
    IN  SelectSeq(BankFiles, exists)

\* lines 305-315 and 320-323: the rows of the files, each with the class id
\* of its file, which is the position of the file among those that exist
RECURSIVE RowsOfFiles(_, _, _)
RowsOfFiles(files, recs, cid) ==
    IF files = <<>> THEN <<>>
    ELSE [i \in 1..Len(recs[Head(files)]) |->
                [x |-> recs[Head(files)][i], lbl |-> cid]]
         \o RowsOfFiles(Tail(files), recs, cid + 1)

\* _load_face_bank: train, and names as the sequence of the labels by class
\* id (names[cid + 1]); train = <<>> stands for (None, {})
_load_face_bank(recs) ==
    [train |-> RowsOfFiles(ExistingFiles(recs), recs, 0),
     names |-> ExistingFiles(recs)]

\* faulty variant: the bank is read again for every frame
BankReloaded(loaded, recs) == _load_face_bank(recs)

\* line 414: _knn(train, ...) with the train of line 364
BankOfAttempt(loaded, recs) == loaded

\* lines 414-420: pred_id and the name it stands for, "none" when the box
\* is skipped
Classify(bank, test_vec, k, threshold) ==
    LET pred_id == _knn(bank.train, test_vec, k, threshold)
    IN  [out |-> pred_id,
         label |-> IF pred_id = -1 THEN "none" ELSE bank.names[pred_id + 1]]

\* the rest of the state during the attempt
outside_snapshot ==
    <<pc, identity, profiles, disk, history, voice_mode, cfg, last,
      stream, frames, votes, result, prev_call, enroll_vars, box>>

\* a face_dataset/ with at most one vector per label, before the attempt
InitSnapshot ==
    /\ CameraIdle
    /\ pc = "input"
    /\ identity = "LOCKED"
    /\ disk = EmptyStore
    /\ profiles = disk
    /\ history = seed_chat_history("Aldridge")
    /\ voice_mode = FALSE
    /\ records \in [EnrollNames -> FileSamples]
    /\ records["Guest"] = <<>>
    /\ records["LOCKED"] = <<>>
    /\ face_dataset = _load_face_bank_names(records)
    /\ cfg \in {c \in Configs : c.cv2}
    /\ last = NoCommand

\* lines 364-386: train, names = _load_face_bank(), then the camera
AttemptBegin ==
    /\ rq_pc = "idle"
    /\ LET loaded == _load_face_bank(records)
       IN  IF loaded.train = <<>>
           THEN /\ rq_pc' = "done"
                /\ UNCHANGED <<knn, cap>>
           ELSE /\ rq_pc' = "loop"
                /\ cap' = "open"
                /\ \E k \in Ks, threshold \in Thresholds :
                    knn' = [train |-> loaded.train, names |-> loaded.names,
                            k |-> k, threshold |-> threshold,
                            sample |-> 0, out |-> -1, label |-> "none",
                            calls |-> 0]
    /\ UNCHANGED <<face_dataset, records, outside_snapshot>>

\* lines 410-420: a box that passed the checks is classified
ClassifyFrame ==
    /\ rq_pc = "loop"
    /\ \E test_vec \in Features :
        LET bank == BankOfAttempt([train |-> knn.train, names |-> knn.names], records)
            c == Classify(bank, test_vec, knn.k, knn.threshold)
        IN  knn' = [knn EXCEPT !.sample = test_vec, !.out = c.out,
                               !.label = c.label, !.calls = 1]
    /\ UNCHANGED <<rq_pc, cap, face_dataset, records, outside_snapshot>>

\* capture_profile, lines 280-283, in another process: np.save replaces the
\* file of a label while the attempt is under way
EnrollCommit ==
    /\ rq_pc = "loop"
    /\ \E l \in BankLabels, smp \in FileSamples \ {<<>>} :
        /\ records' = [records EXCEPT ![l] = smp]
        /\ face_dataset' = _load_face_bank_names(records')
    /\ UNCHANGED <<rq_pc, cap, knn, outside_snapshot>>

\* lines 428-430: the attempt is over
AttemptEnd ==
    /\ rq_pc = "loop"
    /\ rq_pc' = "done"
    /\ cap' = "released"
    /\ UNCHANGED <<knn, face_dataset, records, outside_snapshot>>

NextSnapshot ==
    \/ AttemptBegin
    \/ ClassifyFrame
    \/ EnrollCommit
    \/ AttemptEnd

SpecSnapshot == InitSnapshot /\ [][NextSnapshot]_vars

\* ------------------------------------------------------------ properties

\* the iteration recorded in l asked for the calendar
IsCalendarRequest(l) ==
    l.cmd = "/agenda" \/ (l.cmd \in {"text", "/mic"} /\ l.arg \in {"cal", "caldate"})

\* the iteration recorded in l asked for saved places
IsPlacesRequest(l) ==
    l.cmd \in {"/nav", "/setplace", "/places"}
        \/ (l.cmd \in {"text", "/mic"} /\ l.arg = "nav home")

\* outcomes in which a sensitive request got past the Locked/Guest gate
PastGate == {"calendar", "noperm", "nav", "noplace", "listed", "empty", "saved", "usage"}

\* C1: no calendar read is executed (by /agenda, by a typed calendar question
\* or by a /mic-captured one) in an iteration whose identity is LOCKED or
\* guest, whatever flags the profile store holds under those keys.
C1_NoCalendarReadWhenLockedOrGuest ==
    last.out = "calendar" => last.from \notin {"LOCKED", "guest"}

\* guest asked /agenda while the store grants the calendar to the key guest
C1_Witness ==
    /\ last.cmd = "/agenda"
    /\ last.from = "guest"
    /\ profiles.cal["guest"] = "true"
    /\ last.out = "denied"

\* C2: while the identity is LOCKED or guest, /nav, /setplace, /places and a
\* navigation request in plain words open nothing, list nothing and write
\* nothing: the profile store in memory and on disk is unchanged.
C2_PlacesClosedWhenLockedOrGuest ==
    [][ (pc = "input" /\ identity \in {"LOCKED", "guest"} /\ IsPlacesRequest(last'))
            => /\ last'.out \in {"denied", "nav_denied"}
               /\ profiles' = profiles
               /\ disk' = disk ]_vars

\* guest asked /nav home while the store holds a place home under the key guest
C2_Witness ==
    /\ last.cmd = "/nav"
    /\ last.from = "guest"
    /\ "home" \in profiles.places["guest"]
    /\ last.out = "denied"

\* C3: in no reachable state does a sensitive command (/agenda, /nav,
\* /setplace, /places) get past the Locked/Guest gate while the identity is a
\* reserved identity, Guest or Locked in any letter case.
C3_ReservedIdentityNeverPastGate ==
    (last.cmd \in {"/agenda", "/nav", "/setplace", "/places"}
        /\ Lower(last.from) \in {"guest", "locked"})
    => last.out = "denied"

\* C4: for an identity that is neither LOCKED nor guest, /agenda and a
\* calendar question reach the calendar exactly when the stored
\* permissions.calendar flag of that identity is true.
C4_CalendarIffFlag ==
    (IsCalendarRequest(last) /\ last.from \notin {"LOCKED", "guest", ""})
    => (last.out = "calendar" <=> profiles.cal[last.from] = "true")

\* Professor, granted the calendar, asked a calendar question and got it
C4_Witness ==
    /\ last.cmd = "text"
    /\ last.arg = "cal"
    /\ last.from = "Professor"
    /\ last.out = "calendar"

\* C5: in the Locked state the line `/switch guest` makes the session Guest.
C5_SwitchGuestLineEntersGuest ==
    (last.cmd = "text" /\ last.arg = "/switch guest" /\ last.from = "LOCKED")
    => identity = "guest"

\* C6: in the Guest state every form of the switch command leaves the
\* identity guest, the bare /switch is refused, and an iteration that takes
\* the identity from guest to a persona is a /recognize or a /login.
C6_GuestCannotSwitch ==
    /\ (last.from = "guest" /\ last.cmd = "/switch")
            => (identity = "guest" /\ last.out = "refused")
    /\ (last.from = "guest" /\ last.cmd = "text"
            /\ last.arg \in {"/switch guest", "/switch Professor"})
            => identity = "guest"
    /\ (last.from = "guest" /\ identity # "guest")
            => last.cmd \in {"/recognize", "/login", "/lock"}
    /\ (last.from = "guest" /\ identity \in PERSONAS)
            => last.cmd \in {"/recognize", "/login"}

\* guest typed /switch and was refused
C6_Witness ==
    /\ last.cmd = "/switch"
    /\ last.from = "guest"
    /\ last.out = "refused"
    /\ identity = "guest"

C8_NoReservedEnrollmentLabel ==
    \A n \in face_dataset : Lower(n) \notin {"guest", "locked"}

\* C9: /lock makes the identity LOCKED from every state; from LOCKED the
\* identity changes only by a /recognize that returns a key of PERSONAS, an
\* accepted /login or the switch to guest; and while LOCKED no sensitive
\* request gets past the gate.
C9_LockHoldsUntilUnlock ==
    /\ last.cmd = "/lock" => identity = "LOCKED"
    /\ (last.from = "LOCKED" /\ last.cmd # "startup" /\ identity # "LOCKED")
            => \/ (last.cmd = "/recognize" /\ last.out \in PERSONAS /\ identity = last.out)
               \/ (last.cmd = "/login" /\ last.out = "ok" /\ identity = last.arg)
               \/ (last.cmd = "/switch" /\ identity = "guest")
    /\ (last.from = "LOCKED" /\ (IsCalendarRequest(last) \/ IsPlacesRequest(last)))
            => last.out \notin PastGate

\* a persona typed /lock
C9_Witness ==
    /\ last.cmd = "/lock"
    /\ last.from \in PERSONAS
    /\ identity = "LOCKED"

\* C10: a persona switch happens only from Aldridge or Professor: /switch
\* takes Aldridge to Professor and Professor to Aldridge, so two switches
\* return to the starting persona; a /switch issued by an identity other
\* than LOCKED never ends in guest or LOCKED.
C10_PersonaSwitchToggles ==
    last.cmd = "/switch" =>
        /\ last.from = "Aldridge" => identity = "Professor"
        /\ last.from = "Professor" => identity = "Aldridge"
        /\ (last.out = "persona" \/ identity \in PERSONAS \ {last.from})
                => (last.from \in {"Aldridge", "Professor"} /\ profiles.last = identity)
        /\ last.from # "LOCKED" => identity \notin ({"guest", "LOCKED"} \ {last.from})

\* Professor typed /switch and became Aldridge
C10_Witness ==
    /\ last.cmd = "/switch"
    /\ last.from = "Professor"
    /\ identity = "Aldridge"
    /\ last.out = "persona"

\* C11: a /recognize issued while LOCKED changes the identity exactly when
\* the attempt returns a label that is a key of PERSONAS; the identity is then
\* that persona and _last_identity, in memory and in profiles.json, is that
\* persona; in every other case the identity is still LOCKED.
C11_RecognizeUnlocksExactlyPersona ==
    (last.cmd = "/recognize" /\ last.from = "LOCKED") =>
        IF last.out \in PERSONAS
        THEN /\ identity = last.out
             /\ profiles.last = last.out
             /\ disk.last = last.out
             /\ history = seed_chat_history(last.out)
        ELSE identity = "LOCKED"

\* LOCKED, /recognize returned Aldridge while profiles.json named another
\* last identity
C11_Witness ==
    /\ last.cmd = "/recognize"
    /\ last.from = "LOCKED"
    /\ last.out = "Aldridge"
    /\ identity = "Aldridge"
    /\ disk.last = "Aldridge"

\* C12: a /recognize whose attempt returns no key of PERSONAS (no OpenCV, no
\* camera, no cascade, empty bank, frame budget used up, or a label that is
\* no persona) leaves identity, chat history, voice mode and the profile
\* store in memory and on disk, _last_identity included, as they were.
C12_FailedRecognizeChangesNothing ==
    [][ (pc = "input" /\ last'.cmd = "/recognize" /\ last'.out \notin PERSONAS)
            => /\ identity' = identity
               /\ history' = history
               /\ voice_mode' = voice_mode
               /\ profiles' = profiles
               /\ disk' = disk ]_vars

\* LOCKED, /recognize returned the enrolled label Bob, which is no persona
C12_Witness ==
    /\ last.cmd = "/recognize"
    /\ last.from = "LOCKED"
    /\ last.out = "Bob"
    /\ identity = "LOCKED"
    /\ "Bob" \in face_dataset

\* C13: in strict mode the session starts as a persona only when the startup
\* attempt returned that persona as an enrolled label, and starts LOCKED in
\* every other case; it never starts as Guest in any letter case.
C13_StrictStartupNeverGuest ==
    (last.cmd = "startup" /\ STRICT_AUTH) =>
        /\ Lower(identity) # "guest"
        /\ identity # "LOCKED" =>
                (identity = last.out /\ identity \in face_dataset /\ identity \in PERSONAS)

\* C14: in relaxed mode the session starts as the recognized label when it
\* is a key of PERSONAS, otherwise as the saved _last_identity when it is a
\* key of PERSONAS, otherwise as Aldridge; it never starts LOCKED.
C14_RelaxedStartupOrder ==
    (last.cmd = "startup" /\ ~STRICT_AUTH) =>
        /\ identity = (IF last.out \in PERSONAS THEN last.out
                       ELSE IF disk.last \in PERSONAS THEN disk.last
                       ELSE "Aldridge")
        /\ identity \in PERSONAS

\* relaxed mode, Aldridge recognized while profiles.json names Guest as the
\* last identity: recognition goes first
C14_Witness ==
    /\ last.cmd = "startup"
    /\ ~STRICT_AUTH
    /\ last.out = "Aldridge"
    /\ disk.last = "Guest"
    /\ identity = "Aldridge"

\* C15: when the camera cannot be opened during the startup attempt, the
\* session starts LOCKED.
C15_StartupCameraFailureLocks ==
    (last.cmd = "startup" /\ last.out = "no_camera") => identity = "LOCKED"

\* the votes the boxes of frame f give to label l
Count(l, f) == Cardinality({i \in 1..Len(f.faces) : f.faces[i] = l})

\* the votes label l has collected when the first n frames of the stream
\* have been assessed in full
RECURSIVE Tally(_, _)
Tally(l, n) == IF n = 0 THEN 0 ELSE Tally(l, n - 1) + Count(l, FrameAt(n))

\* the first frame of the budget at which label l holds need_votes votes,
\* 0 when it never does
ReachFrame(l) ==
    IF \E n \in 1..timeout_frames : Tally(l, n) >= need_votes
    THEN CHOOSE n \in 1..timeout_frames :
            /\ Tally(l, n) >= need_votes
            /\ \A m \in 1..(n - 1) : Tally(l, m) < need_votes
    ELSE 0

\* the call entered its loop and has returned
LoopReturned == rq_pc = "done" /\ stream # <<>>

\* C16: when a label reaches need_votes at a frame of the stream earlier than
\* every other label does, recognize_quick returns that label, at that frame,
\* whatever the totals over the whole frame budget would have been.
C16_FirstToThresholdWins ==
    LoopReturned =>
        \A a \in BankLabels :
            (/\ ReachFrame(a) # 0
             /\ \A b \in BankLabels \ {a} :
                    ReachFrame(b) = 0 \/ ReachFrame(a) < ReachFrame(b))
            => (result = a /\ frames = ReachFrame(a))

\* Aldridge was returned at frame 2 although Bob has more votes in the frames
\* of the whole budget
C16_Witness ==
    /\ LoopReturned
    /\ result = "Aldridge"
    /\ frames < timeout_frames
    /\ Tally("Bob", timeout_frames) > Tally("Aldridge", timeout_frames)

\* C17: while the loop runs no tally has reached need_votes; a returned label
\* holds exactly need_votes votes and is returned at the frame where its
\* tally got there; when no tally has reached need_votes the result is None,
\* whoever leads.
C17_NoPartialResult ==
    /\ rq_pc = "loop" => \A l \in BankLabels : votes[l] < need_votes
    /\ (LoopReturned /\ result # "none") =>
            /\ votes[result] = need_votes
            /\ frames = ReachFrame(result)
    /\ (LoopReturned /\ \A l \in BankLabels : votes[l] < need_votes) => result = "none"

\* the frame budget ran out with Bob leading by one vote to none
C17_Witness ==
    /\ LoopReturned
    /\ result = "none"
    /\ votes["Bob"] = 1
    /\ votes["Aldridge"] = 0

\* C18: every call of recognize_quick returns, it never runs more than
\* timeout_frames iterations, and when no label reaches need_votes within
\* the budget it returns None after exactly timeout_frames iterations.
C18_TerminatesWithinBudget ==
    /\ (rq_pc # "done") ~> (rq_pc = "done")
    /\ [](frames <= timeout_frames)
    /\ []((LoopReturned /\ \A l \in BankLabels : ReachFrame(l) = 0)
            => (result = "none" /\ frames = timeout_frames))

\* the budget was used up by frames without a face
C18_Witness ==
    /\ LoopReturned
    /\ result = "none"
    /\ frames = timeout_frames
    /\ \A i \in 1..timeout_frames : FrameAt(i) = Frame(<<>>)

\* a frame that cannot be read, shows no face, or shows only boxes that are
\* too small, not sharp enough or rejected by the classifier
NoVoteFrame(f) ==
    ~f.ok \/ \A i \in 1..Len(f.faces) : f.faces[i] \in {"small", "blurred", "rejected"}

\* C19: an iteration on a frame that cannot be read, has no face, fails the
\* size or sharpness check or is rejected by the classifier changes no
\* tally and raises frames by one.
C19_SkippedFrameCostsBudgetOnly ==
    [][ (rq_pc = "loop" /\ frames < timeout_frames /\ NoVoteFrame(FrameAt(frames + 1)))
            => (votes' = votes /\ frames' = frames + 1 /\ rq_pc' = "loop") ]_vars

\* after one vote, the second frame showed a face the classifier rejected
C19_Witness ==
    /\ rq_pc = "loop"
    /\ frames = 2
    /\ FrameAt(1) = Frame(<<"Bob">>)
    /\ FrameAt(2) = Frame(<<"rejected">>)
    /\ votes["Bob"] = 1

\* the votes of all labels together
RECURSIVE SumVotes(_, _)
SumVotes(v, ls) ==
    IF ls = {} THEN 0
    ELSE LET l == CHOOSE x \in ls : TRUE IN v[l] + SumVotes(v, ls \ {l})

\* C20: one frame gives at most one vote, so the votes of a call never
\* outnumber the frames it has read.
C20_OneVotePerFrame == SumVotes(votes, BankLabels) <= frames

\* C21: a call of recognize_quick enters its loop with an empty tally,
\* whatever the call before it counted and however that call ended, and the
\* tally of a call never holds more votes for a label than the frames of
\* this call have given to it.
C21_FreshTallyPerCall ==
    /\ (rq_pc = "loop" /\ frames = 0) => votes = NoVotes
    /\ (rq_pc \in {"loop", "done"} /\ stream # <<>>) =>
            \A l \in BankLabels : votes[l] <= Tally(l, frames)
    /\ (rq_pc = "done" /\ stream = <<>>) => (votes = NoVotes /\ result = "none")

\* the call before ran out of frames one vote short for Bob; this call saw
\* the same frames and ran out of frames too, one vote short again
C21_Witness ==
    /\ prev_call = "timeout"
    /\ LoopReturned
    /\ result = "none"
    /\ votes["Bob"] = need_votes - 1
    /\ Tally("Bob", timeout_frames) = need_votes - 1

\* the distance of the sample of the call to row i of its bank
Gap(i) ==
    IF knn.sample >= knn.train[i].x
    THEN knn.sample - knn.train[i].x
    ELSE knn.train[i].x - knn.sample

\* the rows of the bank of the call
BankRows == 1..Len(knn.train)

\* C22: _knn returns -1 exactly when every bank vector is farther from the
\* sample than the threshold, that is when the smallest distance is strictly
\* greater than the threshold, whatever k and the other rows are.
C22_RejectsIffNearestBeyond ==
    knn.calls >= 1 =>
        (knn.out = -1 <=> \A i \in BankRows : Gap(i) > knn.threshold)

\* the nearest row is exactly at the threshold, another row is beyond it,
\* and the sample is not rejected
C22_Witness ==
    /\ knn.calls = 1
    /\ \E i \in BankRows : Gap(i) = knn.threshold
    /\ \A i \in BankRows : Gap(i) >= knn.threshold
    /\ \E i \in BankRows : Gap(i) > knn.threshold
    /\ knn.out # -1

\* C23: a sample rejected at a threshold is rejected at every lower
\* threshold, with the same bank and the same k.
C23_RejectionMonotonic ==
    (knn.calls = 2 /\ knn.hi_out = -1 /\ knn.threshold < knn.hi_threshold)
        => knn.out = -1

\* rejected at threshold 2, then rejected at threshold 0
C23_Witness ==
    /\ knn.calls = 2
    /\ knn.hi_threshold = 2
    /\ knn.hi_out = -1
    /\ knn.threshold = 0
    /\ knn.out = -1

\* row i is among the k nearest: fewer than k rows come before it, nearer
\* rows first and equally near rows in the order of the bank
AmongNearest(i) ==
    Cardinality({j \in BankRows :
        Gap(j) < Gap(i) \/ (Gap(j) = Gap(i) /\ j < i)}) < knn.k

\* the rows of label l among the k nearest
NearestOf(l) == {i \in BankRows : AmongNearest(i) /\ knn.train[i].lbl = l}

\* the labels with the most rows among the k nearest
TopLabels ==
    {l \in ClassIds :
        \A u \in ClassIds : Cardinality(NearestOf(u)) <= Cardinality(NearestOf(l))}

\* the distances of the rows of is, added up
RECURSIVE SumGap(_)
SumGap(is) ==
    IF is = {} THEN 0
    ELSE LET i == CHOOSE x \in is : TRUE IN Gap(i) + SumGap(is \ {i})

\* the distance of the nearest row of label l among the k nearest
NearestGap(l) == CHOOSE d \in {Gap(i) : i \in NearestOf(l)} :
                    \A i \in NearestOf(l) : d <= Gap(i)

\* C24: for a sample that is not rejected, _knn returns a most frequent
\* label among the k nearest rows, and among labels tied for most frequent
\* the one with the smallest nearest, or the smallest summed, distance.
C24_TieGoesToNearestLabel ==
    (knn.calls >= 1 /\ knn.out # -1) =>
        /\ knn.out \in TopLabels
        /\ \/ \A u \in TopLabels : NearestGap(knn.out) <= NearestGap(u)
           \/ \A u \in TopLabels : SumGap(NearestOf(knn.out)) <= SumGap(NearestOf(u))

\* C25: with no record in face_dataset/ a call of recognize_quick returns
\* None before it opens the camera and before it enters the loop: no frame
\* is read, so no distance is computed and no neighbour list is indexed.
C25_EmptyBankFailsFast ==
    (HAS_CV2 /\ face_dataset = {}) =>
        /\ rq_pc \in {"idle", "done"}
        /\ cap = "none"
        /\ stream = <<>>
        /\ frames = 0
        /\ result = "none"

\* a call with OpenCV present and an empty face_dataset/ has returned
C25_Witness ==
    /\ HAS_CV2
    /\ face_dataset = {}
    /\ rq_pc = "done"
    /\ prev_call = "none"
    /\ cap = "none"

\* C26: a box narrower or lower than FACE_MIN_SIZE is dropped by the size
\* test of both routines: it is no enrollment sample, it is not classified
\* and so gives no vote.
C26_SmallBoxNeverUsed ==
    (box.w < 80 \/ box.h < 80) =>
        /\ box.enroll \in {"none", "small"}
        /\ box.recog \in {"none", "small"}

\* a sharp box, high enough and one pixel too narrow, dropped by both
C26_Witness ==
    /\ box.w = 79
    /\ box.h = 81
    /\ box.fm = 101
    /\ box.enroll = "small"
    /\ box.recog = "small"

\* C27: a box of sufficient size passes the sharpness check of enrollment
\* exactly when its score is in [FACE_BLUR_THRESH, FACE_MAX_BLUR], both ends
\* included, and passes the check of recognition exactly then too.
C27_SharpnessBandInclusive ==
    (box.w >= 80 /\ box.h >= 80) =>
        /\ box.enroll # "none" =>
                (box.enroll = "sample" <=> (100 <= box.fm /\ box.fm <= 600))
        /\ box.recog # "none" =>
                (box.recog = "classified" <=> (100 <= box.fm /\ box.fm <= 600))
        /\ (box.enroll # "none" /\ box.recog # "none") =>
                (box.enroll = "sample" <=> box.recog = "classified")

\* a box of the minimum size with a score equal to FACE_MAX_BLUR, accepted
\* by both
C27_Witness ==
    /\ box.w = 80
    /\ box.h = 80
    /\ box.fm = 600
    /\ box.enroll = "sample"
    /\ box.recog = "classified"

\* C28: a call of capture_profile that fails (no camera, no detector, or no
\* sample captured) returns False, and no step of a call changes a stored
\* record unless it is the step that returns True.
C28_FailedEnrollmentChangesNothing ==
    /\ [][(en_pc' = "loop" \/ en_ret' = "False") =>
            (records' = records /\ face_dataset' = face_dataset)]_vars
    /\ []((en_pc = "done" /\ (cap = "none" \/ samples = <<>>)) =>
            en_ret = "False")

\* a call for a label with a stored record that counted a frame, kept no
\* sample and returned False after the quit key
C28_Witness ==
    /\ en_pc = "done"
    /\ en_ret = "False"
    /\ cap = "released"
    /\ frame_counter = 1
    /\ samples = <<>>
    /\ StoredRecord(records, en_name) = <<"stored">>

\* C29: the step that returns True leaves the new samples, and nothing else,
\* as the record of the enrolled label, leaves the record of every other
\* label of the bank as it was, and the bank loaded afterwards has one label
\* per stored record.
C29_SuccessReplacesOnlyOwnRecord ==
    [][(en_pc = "loop" /\ en_pc' = "done" /\ en_ret' = "True") =>
            /\ StoredRecord(records', en_name) = samples'
            /\ \A l \in face_dataset \ {en_name} :
                    StoredRecord(records', l) = StoredRecord(records, l)
            /\ face_dataset' = {fn \in DOMAIN records' : records'[fn] # <<>>}]_vars

\* C30: when a call of recognize_quick or capture_profile is over, by a
\* return or by an exception, the camera it opened is not left open.
C30_CameraReleasedOnEveryExit ==
    (rq_pc \in {"done", "raised"} \/ en_pc \in {"done", "raised"}) =>
        cap # "open"

\* C31: every classification of an attempt is the one _knn gives on the bank
\* loaded when the attempt started, and that bank stays what it is while
\* records are replaced on disk.
C31_ClassifiesAgainstSnapshot ==
    /\ []((rq_pc = "loop" /\ knn.calls = 1) =>
            /\ knn.out = _knn(knn.train, knn.sample, knn.k, knn.threshold)
            /\ knn.label = IF knn.out = -1 THEN "none" ELSE knn.names[knn.out + 1])
    /\ [][(rq_pc = "loop" /\ rq_pc' = "loop") =>
            (knn'.train = knn.train /\ knn'.names = knn.names)]_vars

\* a frame classified after a record was replaced, where the bank on disk
\* would have given another answer
C31_Witness ==
    /\ rq_pc = "loop"
    /\ knn.calls = 1
    /\ _load_face_bank(records).train # knn.train
    /\ knn.label # Classify(_load_face_bank(records), knn.sample, knn.k,
                            knn.threshold).label

\* C32: an iteration of the command loop changes the identity only when its
\* command is /recognize, /lock, /login or the bare /switch; /setup_profile,
\* enrolled or not, and every other input leave it as it was.
C32_OnlyAuthCommandsChangeIdentity ==
    [][(pc = "input" /\ identity' # identity) =>
            last'.cmd \in {"/recognize", "/lock", "/login", "/switch"}]_vars

\* LOCKED, /setup_profile Aldridge captured samples, and the session is
\* still LOCKED
C32_Witness ==
    /\ last.cmd = "/setup_profile"
    /\ last.arg = "Aldridge"
    /\ last.out = "enrolled"
    /\ last.from = "LOCKED"
    /\ identity = "LOCKED"

\* a calendar flag is stored under key k
HasFlag(p, k) == p.cal[k] \in {"true", "false"}

\* C33: a stored calendar flag, in memory or in profiles.json, changes only
\* in an iteration of /grant_calendar or /revoke_calendar run as Aldridge for
\* that key, a key of PERSONAS; startup and the session commands never change
\* one; a grant or revoke by another identity leaves the store as it was.
C33_FlagsChangeOnlyByAldridge ==
    [][/\ \A k \in Keys :
            ((HasFlag(profiles, k) /\ profiles'.cal[k] # profiles.cal[k])
                \/ (HasFlag(disk, k) /\ disk'.cal[k] # disk.cal[k]))
            => /\ last'.cmd \in {"/grant_calendar", "/revoke_calendar"}
               /\ identity = "Aldridge"
               /\ last'.arg = k
               /\ k \in PERSONAS
       /\ (pc = "input" /\ identity # "Aldridge"
            /\ last'.cmd \in {"/grant_calendar", "/revoke_calendar"})
            => (profiles' = profiles /\ disk' = disk)]_vars

\* Professor typed /grant_calendar Professor while the flag is false
C33_Witness ==
    /\ last.cmd = "/grant_calendar"
    /\ last.from = "Professor"
    /\ last.arg = "Professor"
    /\ last.out = "not_aldridge"
    /\ profiles.cal["Professor"] = "false"
    /\ disk.cal["Professor"] = "false"

\* the turns of h appended while a persona was the identity
PersonaTurns(h) == {i \in 1..Len(h.turns) : h.turns[i] \in PERSONAS}

\* C34: when a line typed or spoken while the identity is LOCKED or guest
\* reaches chat_turn, the history handed to the LLM holds no turn that was
\* appended while a persona was authenticated.
C34_NoPersonaMemoryWhenLocked ==
    [][(pc = "input" /\ identity \in {"LOCKED", "guest"}
            /\ last'.out \in {"chat", "llm_error"})
        => PersonaTurns(history) = {}]_vars

\* C35: on every store the REPL can hold and for every key,
\* ensure_identity_struct writes a permissions entry only where there is
\* none, with calendar true for Aldridge and false for any other key, and
\* changes nothing else; has_calendar_permission is false for a key without
\* a stored flag.
C35_EnsureCreatesNeverOverwrites ==
    \A id \in Keys :
        LET q == ensure_identity_struct(profiles, id)
        IN  /\ profiles.cal[id] = "absent" =>
                    q.cal[id] = IF id = "Aldridge" THEN "true" ELSE "false"
            /\ profiles.cal[id] # "absent" => q = profiles
            /\ \A k \in Keys \ {id} : q.cal[k] = profiles.cal[k]
            /\ q.places = profiles.places
            /\ q.last = profiles.last
            /\ profiles.cal[id] \in {"absent", "noflag"} =>
                    ~has_calendar_permission(id, profiles)

\* /login Professor on a store without an entry for Professor: the entry
\* is created after the save, with calendar false
C35_Witness ==
    /\ last.cmd = "/login"
    /\ last.arg = "Professor"
    /\ last.out = "ok"
    /\ disk.cal["Professor"] = "absent"
    /\ profiles.cal["Professor"] = "false"

\* C36: the bare /switch typed while LOCKED makes the identity guest and
\* the history a fresh seed, and leaves the profile store, _last_identity and
\* the permission flags included, as it was in memory and on disk.
C36_LockedSwitchGoesToGuest ==
    [][(pc = "input" /\ identity = "LOCKED" /\ last'.cmd = "/switch") =>
            /\ identity' = "guest"
            /\ history' = seed_chat_history("Aldridge")
            /\ history'.turns = <<>>
            /\ profiles' = profiles
            /\ disk' = disk]_vars

\* after /lock as Aldridge, /switch gave guest while _last_identity still
\* names Aldridge
C36_Witness ==
    /\ last.cmd = "/switch"
    /\ last.from = "LOCKED"
    /\ last.out = "guest"
    /\ identity = "guest"
    /\ history.turns = <<>>
    /\ disk.last = "Aldridge"
    /\ profiles.last = "Aldridge"

\* C37: in every state of the REPL the identity is LOCKED, guest or a key of
\* PERSONAS, and the session starts as LOCKED or as a key of PERSONAS.
C37_IdentityAlwaysKnown ==
    /\ identity \in {"LOCKED", "guest"} \cup PERSONAS
    /\ last.cmd = "startup" => identity \in {"LOCKED"} \cup PERSONAS

\* relaxed startup with a profiles.json whose _last_identity is no persona:
\* the session starts as Aldridge
C37_Witness ==
    /\ last.cmd = "startup"
    /\ ~STRICT_AUTH
    /\ profiles.last = "Bob"
    /\ identity = "Aldridge"

\* C38: voice mode is off in every state whose identity is LOCKED.
C38_NoVoiceWhileLocked ==
    identity = "LOCKED" => ~voice_mode

\* the iteration recorded in l took over a persona: a /recognize that
\* returned one, an accepted /login, or the persona toggle of /switch
TookPersona(l) ==
    \/ (l.cmd = "/recognize" /\ l.out \in PERSONAS)
    \/ (l.cmd = "/login" /\ l.out = "ok")
    \/ (l.cmd = "/switch" /\ l.out = "persona")

\* C39: _last_identity, in memory and in profiles.json, changes only in an
\* iteration that took over a persona, and then to the new identity, a key
\* of PERSONAS; it is never LOCKED or guest.
C39_LastIdentityIsPersona ==
    /\ [][(profiles'.last # profiles.last \/ disk'.last # disk.last) =>
            /\ TookPersona(last')
            /\ profiles'.last = identity'
            /\ disk'.last = identity'
            /\ identity' \in PERSONAS]_vars
    /\ [](profiles.last \notin {"LOCKED", "guest"})
    /\ [](disk.last \notin {"LOCKED", "guest"})

\* Professor typed /lock: the identity is LOCKED and _last_identity still
\* names Professor
C39_Witness ==
    /\ last.cmd = "/lock"
    /\ last.from = "Professor"
    /\ identity = "LOCKED"
    /\ profiles.last = "Professor"
    /\ disk.last = "Professor"

\* the frame had a face of sufficient size and sharpness
PassesQuality(f) ==
    /\ f.kind = "face"
    /\ f.w >= 80 /\ f.h >= 80
    /\ 100 <= f.fm /\ f.fm <= 600

\* C40: frame_counter goes up by one for a quality-passing frame and stays
\* for every other frame; the samples kept are floor(frame_counter /
\* keep_every), at most max_frames / keep_every; and the loop is left only
\* with the quit key or with frame_counter at max_frames.
C40_KeepsEveryNthPassingFrame ==
    /\ [](/\ Len(samples) = frame_counter \div keep_every
          /\ Len(samples) <= max_frames \div keep_every
          /\ frame_counter <= max_frames)
    /\ [][en_pc = "loop" =>
            /\ frame_counter' =
                    IF PassesQuality(en_frame') THEN frame_counter + 1
                    ELSE frame_counter
            /\ en_pc' = "done" =>
                    (en_frame'.q \/ frame_counter' >= max_frames)]_vars

\* the loop left without the quit key, at max_frames counted frames, after a
\* frame that passed
C40_Witness ==
    /\ en_pc = "done"
    /\ en_ret = "True"
    /\ ~en_frame.q
    /\ PassesQuality(en_frame)
    /\ frame_counter = max_frames
    /\ Len(samples) = max_frames \div keep_every

====
